---- MODULE Spec2Model ----
(***************************************************************************)
(* The connection-admission state machine of src/client/mod.rs:            *)
(*   NewClient::from_socket -> [NewClient::retrive_dest] ->                *)
(*   Connectable::connect_server -> ConnectedClient::serve                 *)
(* Every future of the pipeline is modelled by one action for the call     *)
(* that builds it and one action per way it can resolve.                   *)
(***************************************************************************)
EXTENDS Integers, Sequences, FiniteSets, TLC

(* ------------------------------ bounds --------------------------------- *)
\* connections that may be in flight at once
NConn == 2
\* proxy servers known to the monitor; the candidate list holds 0..NServers
NServers == 3
\* largest n_parallel a caller passes to connect_server
MaxParallel == 3
\* longest run of bytes one hello read delivers
MaxLen == 3
\* clones of the shared payload the racer's attempts take per connection
MaxClones == 2

(* ------------------------- program constants --------------------------- *)
\* vec![0u8; 2048], the hello-read buffer
BufSize == 2048
\* the TLS record content type of a handshake message
Handshake == 22

Conns == 1..NConn
Servers == 1..NServers
\* the connection the single-connection specification drives
Solo == {1}

(* ------------------------------ values --------------------------------- *)
\* Option<T>: None is the empty sequence, Some(x) the one-element sequence
None == << >>
Some(x) == << x >>
IsSome(o) == Len(o) = 1
Unwrap(o) == o[1]

\* byte values a client sends in the model
ByteVals == {0, 1, Handshake}
RECURSIVE SeqsOfLen(_, _)
SeqsOfLen(S, n) ==
    IF n = 0 THEN { << >> }
    ELSE { Append(s, x) : s \in SeqsOfLen(S, n - 1), x \in S }
\* what one read of the client socket can deliver: 0..MaxLen bytes
Messages == UNION { SeqsOfLen(ByteVals, n) : n \in 0..MaxLen }

\* usize::min
Min(a, b) == IF a <= b THEN a ELSE b

\* u16::to_be / u32::to_be on a little-endian host: a byte swap
to_be16(x) == (x % 256) * 256 + (x \div 256)
to_be32(x) ==
    (x % 256) * 16777216 + ((x \div 256) % 256) * 65536
      + ((x \div 65536) % 256) * 256 + (x \div 16777216)

\* Destination { host: Ip | Domain, port }
IpHost(a) == [kind |-> "Ip", addr |-> a, name |-> << >>]
DomainHost(n) == [kind |-> "Domain", addr |-> 0, name |-> n]
\* From<SocketAddr> for Destination
DestFromAddr(sa) == [host |-> IpHost(sa.ip), port |-> sa.port]
\* From<(&str, u16)> for Destination
DestFromName(n, p) == [host |-> DomainHost(n), port |-> p]

\* sockaddr_in values the kernel reports for SO_ORIGINAL_DST (network order)
KernelAddrs ==
    { [s_addr |-> to_be32(167772161), sin_port |-> to_be16(p)] : p \in {80, 443} }

\* get_original_dest once getsockopt has succeeded
OriginalDst(raw) == [ip |-> to_be32(raw.s_addr), port |-> to_be16(raw.sin_port)]

\* the candidate lists the monitor may hold: the first k servers, k = 0..NServers
Lists == { [i \in 1..k |-> i] : k \in 0..NServers }

(* ------------------------------ state ---------------------------------- *)
VARIABLES
    list,           \* ServerList shared by every connection
    conn_open,      \* per server: update_stats_conn_open calls so far
    conn_close,     \* per server: update_stats_conn_close calls so far
    stage,          \* per connection: where its pipeline stands
    error,          \* per connection: the stage whose future resolved to Err(())
    dest,           \* per connection: Option<Destination> of the current object
    pending_data,   \* per connection: Option<Box<[u8]>> of the current object
    allow_parallel, \* per connection: NewClientWithData.allow_parallel
    server,         \* per connection: Option<chosen Rc<ProxyServer>>
    call,           \* per connection: Option<arguments given to try_connect_all>
    recovered,      \* history: Option<Destination> built by from_socket
    sniff,          \* history: how the timed hello read ended
    sent,           \* history: Option<bytes the hello read delivered>
    req,            \* history: Option<self and n_parallel of connect_server>
    opened,         \* history: conn_open increments made for the connection
    closed,         \* history: conn_close increments made for the connection
    ka_failed,      \* history: set_keepalive failed in serve
    piped,          \* history: the state of the connection's pipe() future
    handles         \* per connection: RcBox clones the racer's attempts hold

vars == << list, conn_open, conn_close, stage, error, dest, pending_data,
           allow_parallel, server, call, recovered, sniff, sent, req,
           opened, closed, ka_failed, piped, handles >>

Init ==
    /\ list \in Lists
    /\ conn_open = [s \in Servers |-> 0]
    /\ conn_close = [s \in Servers |-> 0]
    /\ stage = [c \in Conns |-> "accepted"]
    /\ error = [c \in Conns |-> "none"]
    /\ dest = [c \in Conns |-> None]
    /\ pending_data = [c \in Conns |-> None]
    /\ allow_parallel = [c \in Conns |-> FALSE]
    /\ server = [c \in Conns |-> None]
    /\ call = [c \in Conns |-> None]
    /\ recovered = [c \in Conns |-> None]
    /\ sniff = [c \in Conns |-> "none"]
    /\ sent = [c \in Conns |-> None]
    /\ req = [c \in Conns |-> None]
    /\ opened = [c \in Conns |-> 0]
    /\ closed = [c \in Conns |-> 0]
    /\ ka_failed = [c \in Conns |-> FALSE]
    /\ piped = [c \in Conns |-> "none"]
    /\ handles = [c \in Conns |-> << >>]

(* --------------------------- from_socket ------------------------------- *)
\* peer_addr() and get_original_dest() both succeeded: a NewClient is built
FromSocketOk(c, raw) ==
    /\ stage[c] = "accepted"
    /\ stage' = [stage EXCEPT ![c] = "NewClient"]
    /\ dest' = [dest EXCEPT ![c] = Some(DestFromAddr(OriginalDst(raw)))]
    /\ recovered' = [recovered EXCEPT ![c] = Some(DestFromAddr(OriginalDst(raw)))]
    /\ UNCHANGED << list, conn_open, conn_close, error, pending_data,
                    allow_parallel, server, call, sniff, sent, req,
                    opened, closed, ka_failed, piped,
                    handles >>

\* a recovery that logs the failure and goes on with a guessed destination
FromSocketErrGuess(c) ==
    /\ stage[c] = "accepted"
    /\ stage' = [stage EXCEPT ![c] = "NewClient"]
    /\ error' = [error EXCEPT ![c] = "from_socket"]
    /\ dest' = [dest EXCEPT ![c] = Some(DestFromAddr([ip |-> 0, port |-> 0]))]
    /\ recovered' = [recovered EXCEPT ![c] = Some(DestFromAddr([ip |-> 0, port |-> 0]))]
    /\ UNCHANGED << list, conn_open, conn_close, pending_data,
                    allow_parallel, server, call, sniff, sent, req,
                    opened, closed, ka_failed, piped, handles >>

\* peer_addr() or getsockopt failed: the joined future resolves to Err(())
FromSocketErr(c) ==
    /\ stage[c] = "accepted"
    /\ stage' = [stage EXCEPT ![c] = "dropped"]
    /\ error' = [error EXCEPT ![c] = "from_socket"]
    /\ UNCHANGED << list, conn_open, conn_close, dest, pending_data,
                    allow_parallel, server, call, recovered, sniff, sent, req,
                    opened, closed, ka_failed, piped,
                    handles >>

(* ---------------------------- retrive_dest ----------------------------- *)
\* tls::parse_client_hello, a pure function of the bytes it is given.  The
\* wire format is abstracted to: content type Handshake, one early-data
\* flag byte, then the bytes of the SNI host name (none: no SNI extension);
\* a host name holds no NUL byte.
HelloWellFormed(data) ==
    /\ Len(data) >= 2
    /\ data[1] = Handshake
    /\ data[2] \in {0, 1}
    /\ \A i \in 3..Len(data) : data[i] # 0
parse_client_hello(data) ==
    IF HelloWellFormed(data)
    THEN [ok |-> TRUE,
          server_name |-> IF Len(data) > 2
                          THEN Some(SubSeq(data, 3, Len(data))) ELSE None,
          early_data |-> data[2] = 1]
    ELSE [ok |-> FALSE, server_name |-> None, early_data |-> FALSE]

\* tokio_io::io::read into vec![0u8; 2048]: the bytes delivered overwrite
\* the head of the buffer, len is their count
ReadInto(msg) ==
    [data |-> [i \in 1..BufSize |-> IF i <= Len(msg) THEN msg[i] ELSE 0],
     len |-> Min(Len(msg), BufSize)]

\* a sniffer that keeps the whole buffer: data.truncate(len) left out
TruncateNone(data, len) == data

\* Vec::truncate
Truncate(data, len) == IF len < Len(data) THEN SubSeq(data, 1, len) ELSE data

\* a sniffer that parses the SNI but never stores it in dest
RewriteDestKeep(d, name) == d

\* dest = (name, dest.port).into()
RewriteDest(d, name) == DestFromName(name, d.port)

\* a sniffer that refuses parallel connects for a hello with early data
WithDataEarlyNoParallel(d, r) ==
    LET data == Truncate(r.data, r.len)
        hello == parse_client_hello(data)
    IN  [dest |-> IF hello.ok /\ IsSome(hello.server_name)
                  THEN RewriteDest(d, Unwrap(hello.server_name)) ELSE d,
         allow_parallel |-> hello.ok /\ ~hello.early_data,
         pending_data |-> data]

\* the closure given to .map(): the fields of the NewClientWithData built
\* from the destination d held so far and the completed read r
WithData(d, r) ==
    LET data == Truncate(r.data, r.len)
        hello == parse_client_hello(data)
    IN  [dest |-> IF hello.ok /\ IsSome(hello.server_name)
                  THEN RewriteDest(d, Unwrap(hello.server_name)) ELSE d,
         allow_parallel |-> hello.ok,
         pending_data |-> data]

\* a sniffer that can be asked again on the object it produced
RetriveDestAgain(c) ==
    /\ stage[c] \in {"NewClient", "NewClientWithData"}
    /\ stage' = [stage EXCEPT ![c] = "sniffing"]
    /\ sniff' = [sniff EXCEPT ![c] = "pending"]
    /\ UNCHANGED << list, conn_open, conn_close, error, dest, pending_data,
                    allow_parallel, server, call, recovered, sent, req,
                    opened, closed, ka_failed, piped, handles >>

\* retrive_dest is called: the read and the 200 ms timer are set up
RetriveDest(c) ==
    /\ stage[c] = "NewClient"
    /\ stage' = [stage EXCEPT ![c] = "sniffing"]
    /\ sniff' = [sniff EXCEPT ![c] = "pending"]
    /\ UNCHANGED << list, conn_open, conn_close, error, dest, pending_data,
                    allow_parallel, server, call, recovered, sent, req,
                    opened, closed, ka_failed, piped,
                    handles >>

\* the read completes before the timer fires, delivering msg
HelloRead(c, msg) ==
    /\ stage[c] = "sniffing"
    /\ LET w == WithData(Unwrap(dest[c]), ReadInto(msg))
       IN  /\ dest' = [dest EXCEPT ![c] = Some(w.dest)]
           /\ pending_data' = [pending_data EXCEPT ![c] = Some(w.pending_data)]
           /\ allow_parallel' = [allow_parallel EXCEPT ![c] = w.allow_parallel]
    /\ stage' = [stage EXCEPT ![c] = "NewClientWithData"]
    /\ sniff' = [sniff EXCEPT ![c] = "data"]
    /\ sent' = [sent EXCEPT ![c] = Some(msg)]
    /\ UNCHANGED << list, conn_open, conn_close, error, server, call,
                    recovered, req, opened, closed, ka_failed, piped,
                    handles >>

\* the read fails with an I/O error before the timer fires: the first
\* .map_err() logs a warning, .map() is skipped, the future resolves to
\* Err(()) and the NewClient's fields moved into it are dropped
HelloReadErr(c) ==
    /\ stage[c] = "sniffing"
    /\ stage' = [stage EXCEPT ![c] = "dropped"]
    /\ error' = [error EXCEPT ![c] = "retrive_dest"]
    /\ sniff' = [sniff EXCEPT ![c] = "io_error"]
    /\ dest' = [dest EXCEPT ![c] = None]
    /\ UNCHANGED << list, conn_open, conn_close, pending_data, allow_parallel,
                    server, call, recovered, sent, req, opened, closed,
                    ka_failed, piped,
                    handles >>

\* a sniffer whose read is not raced against a timer
HelloTimeoutUnarmed(c) ==
    /\ stage[c] = "sniffing"
    /\ FALSE
    /\ UNCHANGED vars

\* the timer fires before the read completes: Timeout yields its error,
\* converted to (), .map() is skipped, the last .map_err() logs and the
\* future resolves to Err(())
HelloTimeout(c) ==
    /\ stage[c] = "sniffing"
    /\ stage' = [stage EXCEPT ![c] = "dropped"]
    /\ error' = [error EXCEPT ![c] = "retrive_dest"]
    /\ sniff' = [sniff EXCEPT ![c] = "timeout"]
    /\ dest' = [dest EXCEPT ![c] = None]
    /\ UNCHANGED << list, conn_open, conn_close, pending_data, allow_parallel,
                    server, call, recovered, sent, req, opened, closed,
                    ka_failed, piped,
                    handles >>

(* --------------------------- connect_server ---------------------------- *)
\* RcBox<T>: new, as_ref and clone over the shared Rc<Box<T>>
RcBoxNew(item) == [item |-> item]
RcBoxAsRef(b) == b.item

\* a clone that allocates a fresh, empty buffer instead of sharing the Rc
RcBoxCloneFresh(b) == [item |-> << >>]

RcBoxClone(b) == [item |-> b.item]

\* the arguments of try_connect_all(dest, list, n_parallel, wait_response,
\* pending_data, handle)
TryConnectArgs(d, l, n, w, p) ==
    [dest |-> d, list |-> l, n_parallel |-> n, wait_response |-> w,
     pending_data |-> p]

\* a connector that takes the minimum whatever allow_parallel says
ParallelismAlwaysMin(allow, l, n) == Min(Len(l), n)

\* a connector that forgets to cap n_parallel by the list length
ParallelismUncapped(allow, l, n) == IF allow THEN n ELSE 1

\* a connector that counts only the attempts beyond the first
ParallelismExtra(allow, l, n) == IF allow THEN Min(Len(l), n) - 1 ELSE 1

\* let n_parallel = if allow_parallel { cmp::min(list.len(), n_parallel) }
\*                  else { 1 }
Parallelism(allow, l, n) == IF allow THEN Min(Len(l), n) ELSE 1

\* a direct connect that passes its n_parallel argument on to the racer
NewClientCallParallel(d, l, n) == TryConnectArgs(d, l, n, FALSE, None)

\* <NewClient as Connectable>::connect_server up to the racer's call
NewClientCall(d, l, n) == TryConnectArgs(d, l, 1, FALSE, None)

\* a sniffed connect that hands the racer a destination with the port lost
WithDataCallNoPort(d, l, n, allow, data) ==
    TryConnectArgs([d EXCEPT !.port = 0], l, Parallelism(allow, l, n), TRUE,
                   Some(RcBoxNew(data)))

\* a sniffed connect that passes allow_parallel as the racer's flag
WithDataCallFlagAllow(d, l, n, allow, data) ==
    TryConnectArgs(d, l, Parallelism(allow, l, n), allow, Some(RcBoxNew(data)))

\* <NewClientWithData as Connectable>::connect_server up to the racer's call
WithDataCall(d, l, n, allow, data) ==
    TryConnectArgs(d, l, Parallelism(allow, l, n), TRUE, Some(RcBoxNew(data)))

\* <NewClient as Connectable>::connect_server
ConnectServerNew(c, n) ==
    /\ stage[c] = "NewClient"
    /\ stage' = [stage EXCEPT ![c] = "connecting"]
    /\ call' = [call EXCEPT ![c] = Some(NewClientCall(Unwrap(dest[c]), list, n))]
    /\ req' = [req EXCEPT ![c] =
                 Some([via |-> "NewClient", n_parallel |-> n,
                       dest |-> Unwrap(dest[c]), allow_parallel |-> FALSE,
                       pending_data |-> None])]
    /\ UNCHANGED << list, conn_open, conn_close, error, dest, pending_data,
                    allow_parallel, server, recovered, sniff, sent,
                    opened, closed, ka_failed, piped,
                    handles >>

\* a sniffed connect that hands the racer a copy and keeps pending_data
ConnectServerWithDataKeep(c, n) ==
    /\ stage[c] = "NewClientWithData"
    /\ stage' = [stage EXCEPT ![c] = "connecting"]
    /\ call' = [call EXCEPT ![c] =
                  Some(WithDataCall(Unwrap(dest[c]), list, n, allow_parallel[c],
                                    Unwrap(pending_data[c])))]
    /\ req' = [req EXCEPT ![c] =
                 Some([via |-> "NewClientWithData", n_parallel |-> n,
                       dest |-> Unwrap(dest[c]),
                       allow_parallel |-> allow_parallel[c],
                       pending_data |-> pending_data[c]])]
    /\ UNCHANGED << list, conn_open, conn_close, error, dest, server,
                    pending_data, allow_parallel, recovered, sniff, sent,
                    opened, closed, ka_failed, piped, handles >>

\* <NewClientWithData as Connectable>::connect_server
ConnectServerWithData(c, n) ==
    /\ stage[c] = "NewClientWithData"
    /\ stage' = [stage EXCEPT ![c] = "connecting"]
    /\ call' = [call EXCEPT ![c] =
                  Some(WithDataCall(Unwrap(dest[c]), list, n, allow_parallel[c],
                                    Unwrap(pending_data[c])))]
    /\ req' = [req EXCEPT ![c] =
                 Some([via |-> "NewClientWithData", n_parallel |-> n,
                       dest |-> Unwrap(dest[c]),
                       allow_parallel |-> allow_parallel[c],
                       pending_data |-> pending_data[c]])]
    \* pending_data is moved into the RcBox handed to the racer
    /\ pending_data' = [pending_data EXCEPT ![c] = None]
    /\ allow_parallel' = [allow_parallel EXCEPT ![c] = FALSE]
    /\ UNCHANGED << list, conn_open, conn_close, error, dest, server,
                    recovered, sniff, sent, opened, closed, ka_failed, piped,
                    handles >>

\* a connect that already counts the connection as open when the racer wins
ConnectOkCounting(c, s) ==
    /\ stage[c] = "connecting"
    /\ \E i \in 1..Len(Unwrap(call[c]).list) : Unwrap(call[c]).list[i] = s
    /\ stage' = [stage EXCEPT ![c] = "ConnectedClient"]
    /\ server' = [server EXCEPT ![c] = Some(s)]
    /\ conn_open' = [conn_open EXCEPT ![s] = @ + 1]
    /\ UNCHANGED << list, conn_close, error, dest, pending_data,
                    allow_parallel, call, recovered, sniff, sent, req,
                    opened, closed, ka_failed, piped,
                    handles >>

\* the racer resolves to (server, right): conn.map() builds ConnectedClient
ConnectOk(c, s) ==
    /\ stage[c] = "connecting"
    /\ \E i \in 1..Len(Unwrap(call[c]).list) : Unwrap(call[c]).list[i] = s
    /\ stage' = [stage EXCEPT ![c] = "ConnectedClient"]
    /\ server' = [server EXCEPT ![c] = Some(s)]
    /\ UNCHANGED << list, conn_open, conn_close, error, dest, pending_data,
                    allow_parallel, call, recovered, sniff, sent, req,
                    opened, closed, ka_failed, piped,
                    handles >>

\* an attempt of the racer takes a clone of the shared payload, from the
\* handle connect_server passed in or from a clone taken earlier
RacerClone(c) ==
    /\ stage[c] = "connecting"
    /\ IsSome(Unwrap(call[c]).pending_data)
    /\ Len(handles[c]) < MaxClones
    /\ \E h \in {Unwrap(Unwrap(call[c]).pending_data)}
                  \cup {handles[c][i] : i \in 1..Len(handles[c])} :
          handles' = [handles EXCEPT ![c] = Append(@, RcBoxClone(h))]
    /\ UNCHANGED << list, conn_open, conn_close, stage, error, dest,
                    pending_data, allow_parallel, server, call, recovered,
                    sniff, sent, req, opened, closed, ka_failed, piped >>

\* the racer resolves to its all-failed error: conn.map_err() logs, Err(())
ConnectErr(c) ==
    /\ stage[c] = "connecting"
    /\ stage' = [stage EXCEPT ![c] = "dropped"]
    /\ error' = [error EXCEPT ![c] = "connect_server"]
    /\ dest' = [dest EXCEPT ![c] = None]
    /\ UNCHANGED << list, conn_open, conn_close, pending_data, allow_parallel,
                    server, call, recovered, sniff, sent, req,
                    opened, closed, ka_failed, piped,
                    handles >>

(* -------------------------------- serve -------------------------------- *)
\* ProxyServer::update_stats_conn_open / update_stats_conn_close
StatsConnOpen(counter, s) == [counter EXCEPT ![s] = @ + 1]
StatsConnClose(counter, s) == [counter EXCEPT ![s] = @ + 1]

\* a serve that gives up when keep-alive cannot be set
ServeAbortOnKeepalive(c, kl, kr) ==
    /\ stage[c] = "ConnectedClient"
    /\ ka_failed' = [ka_failed EXCEPT ![c] = ~(kl /\ kr)]
    /\ IF kl /\ kr
       THEN /\ stage' = [stage EXCEPT ![c] = "serving"]
            /\ conn_open' = [conn_open EXCEPT ![Unwrap(server[c])] = @ + 1]
            /\ opened' = [opened EXCEPT ![c] = @ + 1]
            /\ piped' = [piped EXCEPT ![c] = "running"]
            /\ error' = error
       ELSE /\ stage' = [stage EXCEPT ![c] = "served"]
            /\ error' = [error EXCEPT ![c] = "serve"]
            /\ UNCHANGED << conn_open, opened, piped >>
    /\ UNCHANGED << list, conn_close, dest, pending_data,
                    allow_parallel, server, call, recovered, sniff, sent, req,
                    closed, handles >>

\* serve is called: keep-alive is set on both sockets (kl, kr: whether each
\* call succeeded), the open counter is updated and pipe() is started
Serve(c, kl, kr) ==
    /\ stage[c] = "ConnectedClient"
    /\ stage' = [stage EXCEPT ![c] = "serving"]
    /\ ka_failed' = [ka_failed EXCEPT ![c] = ~(kl /\ kr)]
    /\ conn_open' = StatsConnOpen(conn_open, Unwrap(server[c]))
    /\ opened' = [opened EXCEPT ![c] = @ + 1]
    /\ piped' = [piped EXCEPT ![c] = "running"]
    /\ UNCHANGED << list, conn_close, error, dest, pending_data,
                    allow_parallel, server, call, recovered, sniff, sent, req,
                    closed, handles >>

\* a serve that updates the close counter on the Ok arm only
PipeDoneCloseOnOk(c, ok) ==
    /\ stage[c] = "serving"
    /\ stage' = [stage EXCEPT ![c] = "served"]
    /\ conn_close' = IF ok THEN [conn_close EXCEPT ![Unwrap(server[c])] = @ + 1]
                      ELSE conn_close
    /\ closed' = [closed EXCEPT ![c] = IF ok THEN @ + 1 ELSE @]
    /\ error' = [error EXCEPT ![c] = IF ok THEN "none" ELSE "serve"]
    /\ piped' = [piped EXCEPT ![c] = IF ok THEN "ok" ELSE "err"]
    /\ UNCHANGED << list, conn_open, dest, pending_data, allow_parallel,
                    server, call, recovered, sniff, sent, req, opened,
                    ka_failed, handles >>

\* a serve whose completion marks every connection of the server closed
PipeDoneCloseAll(c, ok) ==
    /\ stage[c] = "serving"
    /\ stage' = [stage EXCEPT ![c] = "served"]
    /\ conn_close' = [conn_close EXCEPT ![Unwrap(server[c])] =
                          conn_open[Unwrap(server[c])]]
    /\ closed' = [closed EXCEPT ![c] = @ + 1]
    /\ error' = [error EXCEPT ![c] = IF ok THEN "none" ELSE "serve"]
    /\ piped' = [piped EXCEPT ![c] = IF ok THEN "ok" ELSE "err"]
    /\ UNCHANGED << list, conn_open, dest, pending_data, allow_parallel,
                    server, call, recovered, sniff, sent, req, opened,
                    ka_failed, handles >>

\* pipe() resolves, to Ok((tx, rx)) when ok and to Err(e) otherwise: the
\* .then() closure updates the close counter and maps the result
PipeDone(c, ok) ==
    /\ stage[c] = "serving"
    /\ stage' = [stage EXCEPT ![c] = "served"]
    /\ conn_close' = StatsConnClose(conn_close, Unwrap(server[c]))
    /\ closed' = [closed EXCEPT ![c] = @ + 1]
    /\ error' = [error EXCEPT ![c] = IF ok THEN "none" ELSE "serve"]
    /\ piped' = [piped EXCEPT ![c] = IF ok THEN "ok" ELSE "err"]
    /\ UNCHANGED << list, conn_open, dest, pending_data, allow_parallel,
                    server, call, recovered, sniff, sent, req, opened,
                    ka_failed, handles >>

(* ---------------------------- specification ---------------------------- *)
Step(c) ==
    \/ \E raw \in KernelAddrs : FromSocketOk(c, raw)
    \/ FromSocketErr(c)
    \/ RetriveDest(c)
    \/ \E msg \in Messages : HelloRead(c, msg)
    \/ HelloReadErr(c)
    \/ HelloTimeout(c)
    \/ \E n \in 0..MaxParallel : ConnectServerNew(c, n)
    \/ \E n \in 0..MaxParallel : ConnectServerWithData(c, n)
    \/ RacerClone(c)
    \/ \E s \in Servers : ConnectOk(c, s)
    \/ ConnectErr(c)
    \/ \E kl, kr \in BOOLEAN : Serve(c, kl, kr)
    \/ \E ok \in BOOLEAN : PipeDone(c, ok)

\* one connection carried through its pipeline
Next == \E c \in Solo : Step(c)

Spec == Init /\ [][Next]_vars

\* Several connections in flight on one reactor: their steps interleave in
\* any order.  Each connection sees one redirected address, one hello and
\* one n_parallel, and the list holds two servers.
ConcAddr == [s_addr |-> to_be32(167772161), sin_port |-> to_be16(443)]
ConcHello == << Handshake, 0, 1 >>
StepConc(c) ==
    \/ FromSocketOk(c, ConcAddr)
    \/ FromSocketErr(c)
    \/ RetriveDest(c)
    \/ HelloRead(c, ConcHello)
    \/ HelloReadErr(c)
    \/ HelloTimeout(c)
    \/ ConnectServerNew(c, MaxParallel)
    \/ ConnectServerWithData(c, MaxParallel)
    \/ RacerClone(c)
    \/ \E s \in Servers : ConnectOk(c, s)
    \/ ConnectErr(c)
    \/ \E kl, kr \in BOOLEAN : Serve(c, kl, kr)
    \/ \E ok \in BOOLEAN : PipeDone(c, ok)

InitConc == Init /\ list = << 1, 2 >>

NextConc == \E c \in Conns : StepConc(c)

SpecConc == InitConc /\ [][NextConc]_vars

\* One connection, with the timer of every started hello read firing unless
\* the read resolves first: the reactor keeps running and tokio_timer
\* completes a Timeout once its 200 ms have passed.
SpecLive == Init /\ [][Next]_vars /\ \A c \in Solo : WF_vars(HelloTimeout(c))

(* ------------------------------ claims --------------------------------- *)
\* stages that hold an object produced after a successful retrive_dest
AfterSniff ==
    {"NewClientWithData", "connecting", "ConnectedClient", "serving", "served"}

\* the hello a connection's read delivered, as the parser sees those bytes
SentHello(c) == parse_client_hello(Unwrap(sent[c]))

\* C1: when the 200 ms timer fires before the hello read completes,
\* retrive_dest still resolves successfully: the connection goes on as a
\* NewClientWithData with no pending data, the destination recovered by
\* from_socket and allow_parallel = false.
C1_TimeoutProceeds ==
    \A c \in Conns :
        sniff[c] = "timeout" =>
            /\ error[c] # "retrive_dest"
            /\ stage[c] \in AfterSniff
            /\ stage[c] = "NewClientWithData" =>
                   /\ pending_data[c] \in {None, Some(<< >>)}
                   /\ dest[c] = recovered[c]
                   /\ ~allow_parallel[c]

\* C2: when the hello read fails with an I/O error, retrive_dest takes the
\* same non-fatal fallback: it resolves to a NewClientWithData with
\* allow_parallel = false and the destination unchanged.
C2_ReadErrorProceeds ==
    \A c \in Conns :
        sniff[c] = "io_error" =>
            /\ error[c] # "retrive_dest"
            /\ stage[c] \in AfterSniff
            /\ stage[c] = "NewClientWithData" =>
                   /\ dest[c] = recovered[c]
                   /\ ~allow_parallel[c]

\* C3: a hello read that completes in time and parses as a Client Hello
\* with SNI host name h yields a NewClientWithData whose destination host is
\* h, whose port is the one recovered by from_socket, and allow_parallel.
C3_SniHostRewritten ==
    \A c \in Conns :
        ( /\ stage[c] = "NewClientWithData"
          /\ SentHello(c).ok
          /\ IsSome(SentHello(c).server_name) ) =>
            /\ Unwrap(dest[c]).host = DomainHost(Unwrap(SentHello(c).server_name))
            /\ Unwrap(dest[c]).port = Unwrap(recovered[c]).port
            /\ allow_parallel[c]

C3_Witness ==
    \E c \in Conns :
        /\ stage[c] = "NewClientWithData"
        /\ SentHello(c).ok
        /\ SentHello(c).server_name = Some(<< Handshake >>)
        /\ Unwrap(recovered[c]).host.kind = "Ip"
        /\ Unwrap(dest[c]).host.kind = "Domain"
        /\ Unwrap(dest[c]).port = 80

\* C4: a hello read that completes in time with len bytes that are no
\* Client Hello yields a NewClientWithData whose pending_data is exactly
\* those len bytes, with allow_parallel = false and the destination
\* recovered by from_socket.
C4_MalformedKeptExactly ==
    \A c \in Conns :
        ( /\ stage[c] = "NewClientWithData"
          /\ ~SentHello(c).ok ) =>
            /\ pending_data[c] = sent[c]
            /\ Len(Unwrap(pending_data[c])) = Len(Unwrap(sent[c]))
            /\ ~allow_parallel[c]
            /\ dest[c] = recovered[c]

C4_Witness ==
    \E c \in Conns :
        /\ stage[c] = "NewClientWithData"
        /\ ~SentHello(c).ok
        /\ sent[c] = Some(<< 1, 0 >>)
        /\ pending_data[c] = Some(<< 1, 0 >>)

\* C5: through every stage of a connection the destination's port is the
\* port recovered by from_socket, the host changes only while retrive_dest
\* resolves, and both the destination handed to the racer and the one kept
\* in the ConnectedClient equal the destination connect_server was called on.
C5_PortAndDestKept ==
    \A c \in Conns :
        /\ IsSome(dest[c]) => Unwrap(dest[c]).port = Unwrap(recovered[c]).port
        /\ IsSome(call[c]) =>
               /\ Unwrap(call[c]).dest = Unwrap(req[c]).dest
               /\ Unwrap(call[c]).dest.port = Unwrap(recovered[c]).port
        /\ stage[c] \in {"connecting", "ConnectedClient", "serving", "served"} =>
               dest[c] = Some(Unwrap(req[c]).dest)
        /\ stage[c] \in {"NewClient", "sniffing"} => dest[c] = recovered[c]

C5_Witness ==
    \E c \in Conns :
        /\ stage[c] = "served"
        /\ Unwrap(req[c]).via = "NewClientWithData"
        /\ Unwrap(dest[c]).host.kind = "Domain"
        /\ Unwrap(recovered[c]).port = 443
        /\ Unwrap(call[c]).dest = Unwrap(dest[c])

\* C6: connect_server on a NewClientWithData with allow_parallel = false
\* hands the racer a parallelism of exactly 1, for every n_parallel >= 1 and
\* every candidate list.
C6_NotParallelIsOne ==
    \A c \in Conns :
        ( /\ IsSome(req[c])
          /\ Unwrap(req[c]).via = "NewClientWithData"
          /\ ~Unwrap(req[c]).allow_parallel
          /\ Unwrap(req[c]).n_parallel >= 1 ) =>
            Unwrap(call[c]).n_parallel = 1

C6_Witness ==
    \E c \in Conns :
        /\ IsSome(req[c])
        /\ Unwrap(req[c]).via = "NewClientWithData"
        /\ ~Unwrap(req[c]).allow_parallel
        /\ Unwrap(req[c]).n_parallel = 3
        /\ Len(Unwrap(call[c]).list) = 3
        /\ Unwrap(call[c]).n_parallel = 1

\* C7: connect_server on a NewClientWithData with allow_parallel = true
\* hands the racer the parallelism min(number of candidates, n_parallel),
\* for every n_parallel >= 1 and every candidate list.
C7_ParallelIsMin ==
    \A c \in Conns :
        ( /\ IsSome(req[c])
          /\ Unwrap(req[c]).via = "NewClientWithData"
          /\ Unwrap(req[c]).allow_parallel
          /\ Unwrap(req[c]).n_parallel >= 1 ) =>
            LET k == Len(Unwrap(call[c]).list)
                n == Unwrap(req[c]).n_parallel
            IN  /\ Unwrap(call[c]).n_parallel <= k
                /\ Unwrap(call[c]).n_parallel <= n
                /\ Unwrap(call[c]).n_parallel \in {k, n}

C7_Witness ==
    \E c \in Conns :
        /\ IsSome(req[c])
        /\ Unwrap(req[c]).via = "NewClientWithData"
        /\ Unwrap(req[c]).allow_parallel
        /\ Unwrap(req[c]).n_parallel = 3
        /\ Len(Unwrap(call[c]).list) = 2
        /\ Unwrap(call[c]).n_parallel = 2
        /\ Unwrap(call[c]).dest.port = 443

\* C8: connect_server on a NewClient calls the racer with parallelism 1, no
\* shared payload and the flag false, whatever n_parallel it is given.
C8_DirectConnectIsPlain ==
    \A c \in Conns :
        ( /\ IsSome(req[c])
          /\ Unwrap(req[c]).via = "NewClient" ) =>
            /\ Unwrap(call[c]).n_parallel = 1
            /\ Unwrap(call[c]).pending_data = None
            /\ Unwrap(call[c]).wait_response = FALSE

C8_Witness ==
    \E c \in Conns :
        /\ IsSome(req[c])
        /\ Unwrap(req[c]).via = "NewClient"
        /\ Unwrap(req[c]).n_parallel = 3
        /\ Len(Unwrap(call[c]).list) = 3
        /\ Unwrap(call[c]).n_parallel = 1

\* the connections routed through server s
Routed(s) == { c \in Conns : server[c] = Some(s) }
RECURSIVE Sum(_, _)
Sum(f, S) ==
    IF S = {} THEN 0
    ELSE LET x == CHOOSE y \in S : TRUE IN f[x] + Sum(f, S \ {x})

\* C9: for every served ConnectedClient the chosen server's open counter is
\* incremented exactly once, before the copy runs, and its close counter
\* exactly once, only after the copy has completed, whether the copy ended
\* in success or in an I/O error.
C9_OpenCloseOnce ==
    /\ \A c \in Conns :
        /\ stage[c] \notin {"serving", "served"} => opened[c] = 0 /\ closed[c] = 0
        /\ stage[c] = "serving" => opened[c] = 1 /\ closed[c] = 0
        /\ stage[c] = "served" => opened[c] = 1 /\ closed[c] = 1
    /\ \A s \in Servers :
        /\ conn_open[s] = Sum(opened, Routed(s))
        /\ conn_close[s] = Sum(closed, Routed(s))

C9_Witness ==
    \E c \in Conns :
        /\ stage[c] = "served"
        /\ error[c] = "serve"
        /\ conn_open[Unwrap(server[c])] = 1
        /\ conn_close[Unwrap(server[c])] = 1

\* C10: connect_server changes no counter, when it is called, when the
\* racer succeeds and when the racer reports that every candidate failed;
\* in that last case it resolves to the failure and no ConnectedClient
\* (no chosen server) exists.
C10_ConnectTouchesNoCounter ==
    [][ \A c \in Conns :
          ( /\ stage[c] \in {"NewClient", "NewClientWithData", "connecting"}
            /\ stage'[c] # stage[c]
            /\ stage'[c] # "sniffing" ) =>
              /\ conn_open' = conn_open
              /\ conn_close' = conn_close
              /\ error'[c] = "connect_server" =>
                     /\ stage'[c] = "dropped"
                     /\ server'[c] = None ]_vars

C10_Witness ==
    \E c \in Conns :
        /\ error[c] = "connect_server"
        /\ stage[c] = "dropped"
        /\ Len(Unwrap(call[c]).list) = 3
        /\ \A s \in Servers : conn_open[s] = 0 /\ conn_close[s] = 0

\* the stage changes one step of a connection's pipeline may make
StageOrder ==
    { << "accepted", "NewClient" >>, << "accepted", "dropped" >>,
      << "NewClient", "sniffing" >>, << "NewClient", "connecting" >>,
      << "sniffing", "NewClientWithData" >>, << "sniffing", "dropped" >>,
      << "NewClientWithData", "connecting" >>,
      << "connecting", "ConnectedClient" >>, << "connecting", "dropped" >>,
      << "ConnectedClient", "serving" >>, << "serving", "served" >> }

\* C11: within one connection the stages run strictly in the order
\* from_socket -> optional retrive_dest -> connect_server -> serve, each at
\* most once: a NewClient is consumed by retrive_dest or by connect_server,
\* a NewClientWithData only by connect_server, a ConnectedClient only by
\* serve, and no earlier stage runs after a later one has started.
C11_StagesInOrder ==
    [][ \A c \in Conns :
          stage'[c] # stage[c] =>
              /\ << stage[c], stage'[c] >> \in StageOrder
              /\ stage'[c] = "connecting" =>
                     Unwrap(req'[c]).via = stage[c]
              /\ stage[c] = "NewClient" => req[c] = None /\ sniff[c] = "none"
              /\ stage[c] = "NewClientWithData" => req[c] = None
              /\ stage[c] = "ConnectedClient" => piped[c] = "none" ]_vars

C11_Witness ==
    \E c \in Conns :
        /\ stage[c] = "served"
        /\ sniff[c] = "data"
        /\ Unwrap(req[c]).via = "NewClientWithData"
        /\ piped[c] = "ok"

\* C12: pending_data is set exactly while the connection is a
\* NewClientWithData: every NewClientWithData retrive_dest produces carries
\* the bytes read, and no NewClient or ConnectedClient carries any.
C12_PendingDataIffWithData ==
    \A c \in Conns :
        /\ IsSome(pending_data[c]) <=> stage[c] = "NewClientWithData"
        /\ stage[c] = "NewClientWithData" => pending_data[c] = sent[c]

C12_Witness ==
    /\ \E c \in Conns :
        /\ stage[c] = "NewClientWithData"
        /\ pending_data[c] = Some(<< Handshake, 1, 1 >>)
    /\ \E c \in Conns :
        /\ stage[c] = "accepted"
        /\ pending_data[c] = None

\* C13: when set_keepalive fails on the client socket, on the upstream
\* socket or on both, serve does not abort: the open counter is still
\* incremented, the copy runs, the close counter is incremented when it
\* ends, and the result of serve is the copy's result alone.
C13_KeepaliveNotFatal ==
    \A c \in Conns :
        /\ ka_failed[c] =>
               /\ stage[c] \in {"serving", "served"}
               /\ opened[c] = 1
               /\ conn_open[Unwrap(server[c])] >= 1
               /\ piped[c] # "none"
               /\ stage[c] = "serving" => error[c] = "none" /\ piped[c] = "running"
               /\ stage[c] = "served" =>
                      /\ closed[c] = 1
                      /\ conn_close[Unwrap(server[c])] >= 1
        /\ stage[c] = "served" =>
               /\ error[c] = "none" <=> piped[c] = "ok"
               /\ error[c] = "serve" <=> piped[c] = "err"

C13_Witness ==
    \E c \in Conns :
        /\ ka_failed[c]
        /\ stage[c] = "served"
        /\ piped[c] = "ok"
        /\ error[c] = "none"
        /\ conn_open[Unwrap(server[c])] = 1
        /\ conn_close[Unwrap(server[c])] = 1

\* C14: when the original-destination lookup on the accepted socket fails,
\* from_socket resolves to failure and no NewClient is created: the
\* connection never reaches sniffing, connecting or serving, and holds no
\* destination, guessed or otherwise.
C14_NoDestinationNoClient ==
    \A c \in Conns :
        error[c] = "from_socket" =>
            /\ stage[c] = "dropped"
            /\ dest[c] = None
            /\ recovered[c] = None
            /\ sniff[c] = "none"
            /\ call[c] = None
            /\ req[c] = None
            /\ server[c] = None
            /\ opened[c] = 0
            /\ piped[c] = "none"

C14_Witness ==
    \E c \in Conns :
        /\ error[c] = "from_socket"
        /\ stage[c] = "dropped"
        /\ Len(list) = 3

\* every handle to a connection's shared payload: the RcBox connect_server
\* built and the clones taken from it
Handles(c) ==
    {Unwrap(Unwrap(call[c]).pending_data)}
        \cup {handles[c][i] : i \in 1..Len(handles[c])}

\* C15: for every payload wrapped in an RcBox and every number of clones,
\* taken from the original or from other clones, as_ref on each handle
\* yields the wrapped bytes, and no step changes what a handle yields.
C15_ClonesReadSameBytes ==
    /\ [](\A c \in Conns :
            (IsSome(call[c]) /\ IsSome(Unwrap(call[c]).pending_data)) =>
                \A h \in Handles(c) :
                    RcBoxAsRef(h) = Unwrap(Unwrap(req[c]).pending_data))
    /\ [][ \A c \in Conns :
             /\ IsSome(call[c]) => call'[c] = call[c]
             /\ \A i \in 1..Len(handles[c]) :
                    /\ i <= Len(handles'[c])
                    /\ RcBoxAsRef(handles'[c][i]) = RcBoxAsRef(handles[c][i]) ]_vars

C15_Witness ==
    \E c \in Conns :
        /\ IsSome(call[c])
        /\ Len(handles[c]) = 2
        /\ Unwrap(req[c]).pending_data = Some(<< Handshake, 0, 1 >>)
        /\ \A h \in Handles(c) : RcBoxAsRef(h) = << Handshake, 0, 1 >>

\* the hello that differs from msg in the early-data indicator alone
FlipEarly(msg) == [msg EXCEPT ![2] = 1 - @]

\* what retrive_dest builds for connection c's recovered destination when
\* the read delivers the hello that differs in early data alone
Twin(c) == WithData(Unwrap(recovered[c]), ReadInto(FlipEarly(Unwrap(sent[c]))))

\* C16 as stated: a parsed hello without SNI leaves the destination
\* unchanged and sets allow_parallel; and two hellos that differ only in
\* early_data produce the same destination, pending_data and
\* allow_parallel.
C16_EarlyDataSameState ==
    \A c \in Conns :
        (stage[c] = "NewClientWithData" /\ SentHello(c).ok) =>
            /\ SentHello(c).server_name = None =>
                   dest[c] = recovered[c] /\ allow_parallel[c]
            /\ Twin(c).dest = Unwrap(dest[c])
            /\ Twin(c).allow_parallel = allow_parallel[c]
            /\ Twin(c).pending_data = Unwrap(pending_data[c])

\* C16 amended: a parsed hello without SNI leaves the destination unchanged
\* and sets allow_parallel; two hellos that differ only in early_data
\* produce the same destination and allow_parallel, hence the same
\* parallelism for every n_parallel, while pending_data is in each case the
\* bytes that were read.
C16_EarlyDataSameRouting ==
    \A c \in Conns :
        (stage[c] = "NewClientWithData" /\ SentHello(c).ok) =>
            /\ SentHello(c).server_name = None =>
                   dest[c] = recovered[c] /\ allow_parallel[c]
            /\ Twin(c).dest = Unwrap(dest[c])
            /\ Twin(c).allow_parallel = allow_parallel[c]
            /\ \A n \in 0..MaxParallel :
                   Parallelism(Twin(c).allow_parallel, list, n)
                       = Parallelism(allow_parallel[c], list, n)
            /\ pending_data[c] = sent[c]
            /\ Twin(c).pending_data = FlipEarly(Unwrap(sent[c]))

C16_Witness ==
    \E c \in Conns :
        /\ stage[c] = "NewClientWithData"
        /\ sent[c] = Some(<< Handshake, 1 >>)
        /\ SentHello(c).early_data
        /\ SentHello(c).server_name = None
        /\ dest[c] = recovered[c]
        /\ allow_parallel[c]

\* C17 as stated: for every call of connect_server, on either state, with
\* any n_parallel >= 1, any allow_parallel and any candidate list, the empty
\* list included, the parallelism handed to the racer is at least 1.
C17_ParallelismAtLeastOne ==
    \A c \in Conns :
        (IsSome(req[c]) /\ Unwrap(req[c]).n_parallel >= 1) =>
            Unwrap(call[c]).n_parallel >= 1

\* C17 amended: with any n_parallel >= 1 the parallelism handed to the
\* racer is at least 1 on a NewClient, on a NewClientWithData with
\* allow_parallel = false, and on one with allow_parallel = true and a
\* non-empty candidate list; with allow_parallel = true and an empty list
\* it is 0.
C17_ParallelismAtLeastOneUnlessEmpty ==
    \A c \in Conns :
        (IsSome(req[c]) /\ Unwrap(req[c]).n_parallel >= 1) =>
            LET r == Unwrap(req[c])
                empty == Len(Unwrap(call[c]).list) = 0
            IN  IF r.via = "NewClientWithData" /\ r.allow_parallel /\ empty
                THEN Unwrap(call[c]).n_parallel = 0
                ELSE Unwrap(call[c]).n_parallel >= 1

C17_Witness ==
    /\ Len(list) = 1
    /\ \E c \in Conns :
        /\ IsSome(req[c])
        /\ Unwrap(req[c]).via = "NewClientWithData"
        /\ Unwrap(req[c]).allow_parallel
        /\ Unwrap(req[c]).n_parallel = 3
        /\ Unwrap(call[c]).n_parallel = 1

\* C18: in every call of the racer the flag is true exactly when a shared
\* payload is supplied, which is exactly when the caller is a
\* NewClientWithData, also when allow_parallel is false; allow_parallel
\* decides the parallelism argument and nothing else.
C18_FlagIffPayload ==
    \A c \in Conns :
        IsSome(call[c]) =>
            LET a == Unwrap(call[c])
                r == Unwrap(req[c])
            IN  /\ a.wait_response <=> IsSome(a.pending_data)
                /\ a.wait_response <=> r.via = "NewClientWithData"
                /\ r.via = "NewClientWithData" =>
                       /\ a.dest = r.dest
                       /\ a.list = list
                       /\ RcBoxAsRef(Unwrap(a.pending_data)) = Unwrap(r.pending_data)
                       /\ ~r.allow_parallel => a.n_parallel = 1

C18_Witness ==
    \E c \in Conns :
        /\ IsSome(call[c])
        /\ Unwrap(req[c]).via = "NewClientWithData"
        /\ ~Unwrap(req[c]).allow_parallel
        /\ Unwrap(call[c]).wait_response
        /\ Unwrap(call[c]).pending_data = Some(RcBoxNew(<< 1 >>))

\* the connections routed through s whose copy has started and not ended
Copying(s) == { c \in Routed(s) : piped[c] = "running" }

\* everything the model keeps for connection c
ConnState(c) ==
    << stage[c], error[c], dest[c], pending_data[c], allow_parallel[c],
       server[c], call[c], recovered[c], sniff[c], sent[c], req[c],
       opened[c], closed[c], ka_failed[c], piped[c], handles[c] >>

\* C19: with several connections in flight through the same server, under
\* every interleaving, the server's open count minus its close count is the
\* number of connections whose copy has started and not yet completed; a
\* copy that fails changes no state of any other connection; and once every
\* serve has completed the open and close counts are equal.
C19_CountersTrackCopies ==
    /\ [](\A s \in Servers :
            /\ conn_open[s] - conn_close[s] = Cardinality(Copying(s))
            /\ conn_open[s] = Sum(opened, Routed(s))
            /\ (\A c \in Routed(s) : stage[c] # "serving") =>
                   conn_open[s] = conn_close[s])
    /\ [][ \A c \in Conns :
             (stage[c] = "serving" /\ piped'[c] = "err") =>
                 \A d \in Conns \ {c} : ConnState(d)' = ConnState(d) ]_vars

C19_Witness ==
    \E c, d \in Conns :
        /\ c # d
        /\ server[c] = server[d]
        /\ stage[c] = "served"
        /\ piped[c] = "err"
        /\ stage[d] = "serving"
        /\ conn_open[Unwrap(server[c])] = 2
        /\ conn_close[Unwrap(server[c])] = 1

\* C20: every retrive_dest eventually resolves, to success or to failure,
\* also when the client never sends a byte and never closes; it resolves at
\* most once, and a read completing after the timer has fired produces no
\* second result.
C20_SniffResolvesOnce ==
    /\ \A c \in Conns : (stage[c] = "sniffing") ~> (stage[c] # "sniffing")
    /\ [](\A c \in Conns :
            /\ stage[c] = "sniffing" <=> sniff[c] = "pending"
            /\ sniff[c] \in {"timeout", "io_error"} =>
                   stage[c] = "dropped" /\ sent[c] = None /\ pending_data[c] = None)
    /\ [][ \A c \in Conns :
             sniff[c] \in {"data", "io_error", "timeout"} =>
                 /\ sniff'[c] = sniff[c]
                 /\ sent'[c] = sent[c] ]_vars

C20_Witness ==
    \E c \in Conns :
        /\ sniff[c] = "timeout"
        /\ stage[c] = "dropped"
        /\ error[c] = "retrive_dest"
        /\ sent[c] = None
====
